---- MODULE Spec2Model ----
(***************************************************************************)
(* PhotoPro AI backend: the credit ledger and photo generation workflow of *)
(* backend/main.py, backend/admin.py and backend/batch_processing.py.      *)
(*                                                                         *)
(* The three tables (users, generated_photos, credit_transactions) are the *)
(* committed database state; every db.commit() of a handler is one step.   *)
(* Handlers are coroutines of one event loop (gunicorn.conf.py: workers =  *)
(* 1, uvicorn worker): a handler keeps the loop from one await to the      *)
(* next, so other requests interleave only where the code awaits.  The     *)
(* only awaits of the handlers are the notify_* calls of websocket.py,     *)
(* which suspend only while the account has a client socket registered.    *)
(***************************************************************************)
EXTENDS Integers, Sequences, FiniteSets, TLC

\* ---- bounds of the model ------------------------------------------------
NumReq == 2         \* request slots served concurrently
MaxUsers == 2       \* rows of the users table
MaxPhotos == 4      \* rows of the generated_photos table
MaxTx == 5          \* rows of the credit_transactions table
MaxBatch == 2       \* items of one batch request
MaxFaults == 1      \* failing db.commit() calls in one run (SpecFault)
MaxClock == 5       \* readings of the wall clock
MaxCalls == 2       \* calls given to RateLimitMiddleware (SpecLimiter)
MaxPeriod == 2      \* period given to RateLimitMiddleware (SpecLimiter)
MaxServed == 4      \* requests the middleware hands on (SpecLimiter)

\* ---- program constants --------------------------------------------------
WelcomeCredits == 3

\* rows returned by GET /photos/history (main.py 411)
HistoryLimit == 20

valid_styles == {"corporate", "creative", "formal", "casual"}

plans == [free |-> 3, pro |-> 50, enterprise |-> 999]

\* ---- inputs -------------------------------------------------------------
Emails == {"admin@photopro.ai", "bob@example.com"}
Usernames == {"alice", "admin", "bob"}
StyleInputs == {"corporate", "Formal", "vintage"}
PlanInputs == {"free", "pro", "gold"}
AdminAmounts == {0, 2}
\* what replicate_client.run returns: a list of URLs (possibly empty)
GenOutputs == {<<>>, <<"u1", "u2">>}

\* request.client.host of the clients
ClientIps == {"ip1", "ip2"}

Slots == 1..NumReq

VARIABLES users, photos, ledger, req, running, faults, tasks, last, channel,
          active_connections, sockets, broadcasts, now, limiter, served

\* the state of websocket.py's ConnectionManager in full: the registry, the
\* client sockets and the send_personal_message calls under way
wsvars == <<active_connections, sockets, broadcasts>>

\* the tables, the handlers and the one-socket view of the channel
appvars ==
  <<users, photos, ledger, req, running, faults, tasks, last, channel, now,
    limiter, served>>

\* what no handler of a write request assigns: the manager's socket-level
\* state, the wall clock, the rate limiter and the log of the requests it
\* handed on
untouched ==
  <<active_connections, sockets, broadcasts, now, limiter, served>>

vars == <<users, photos, ledger, req, running, faults, tasks, last, channel,
          active_connections, sockets, broadcasts, now, limiter, served>>

\* str.lower() on the style strings a request can carry
Lower(s) ==
  CASE s = "Formal" -> "formal"
    [] s = "Corporate" -> "corporate"
    [] OTHER -> s

validate_style(style) == Lower(style) \in valid_styles

is_admin(user) == user.username = "admin" \/ user.email = "admin@photopro.ai"

\* sum of the amounts of the rows of L that belong to account u
RECURSIVE SumFrom(_, _, _)
SumFrom(L, u, i) ==
  IF i > Len(L) THEN 0
  ELSE (IF L[i].user_id = u THEN L[i].amount ELSE 0) + SumFrom(L, u, i + 1)

LedgerSum(u) == SumFrom(ledger, u, 1)

UserIds == 1..Len(users)

\* a request slot with no handler in it; the fields are the handler's
\* parameters and locals (seen: the balance its credit check read; calls:
\* generator invocations; txs, delta: the ledger rows it committed and the
\* balance change it committed)
IdleSlot ==
  [op |-> "none", pc |-> "idle", user |-> 0, arg |-> "", name |-> "",
   n |-> 0, target |-> 0, photo |-> 0, batch |-> <<>>, url |-> "",
   seen |-> 0, calls |-> 0, txs |-> <<>>, delta |-> 0, rows |-> <<>>]

\* the response a handler sent, with the request it answers
Response(R, status) ==
  [op |-> R.op, status |-> status, user |-> R.user, arg |-> R.arg,
   name |-> R.name, n |-> R.n, target |-> R.target, seen |-> R.seen,
   photo |-> R.photo, calls |-> R.calls, url |-> R.url, rows |-> R.rows]

NoResponse == Response(IdleSlot, "none")

\* the request of a handler that has nothing to report but its kind
Bare(op) == [IdleSlot EXCEPT !.op = op]

\* outcomes of one db.commit(): it raises only while the fault budget lasts
CommitOutcomes == IF faults > 0 THEN {TRUE, FALSE} ELSE {TRUE}

\* handlers that were accepted and have not returned
Active == {r \in Slots : req[r].pc # "idle"}

\* the loop is free to start a new handler; it takes the first free slot
CanStart(r) ==
  /\ req[r].pc = "idle"
  /\ running = 0
  /\ \A q \in Slots : q < r => req[q].pc # "idle"

\* the coroutine of slot r is the one the loop runs next
CanStep(r, at) == req[r].pc = at /\ running \in {0, r}

\* every accepted handler can still commit its ledger row
RoomForTx == Len(ledger) + Cardinality(Active) < MaxTx

\* a generated_photos row; created_at is the column default, the reading of
\* datetime.utcnow() at the insert (models.py 44); mem is the status on the
\* object a batch background task holds ("-" when no task holds the row),
\* told the status carried by the last notify_* call made for the row ("-"
\* when none was)
Photo(u, style, status, mem) ==
  [user_id |-> u, style |-> style, status |-> status, processed_url |-> "",
   thumbnail_url |-> "", created_at |-> now, mem |-> mem, told |-> "-"]

Transaction(u, amount, kind) ==
  [user_id |-> u, amount |-> amount, transaction_type |-> kind]

\* the handler in slot r goes on with the locals R
Continue(r, R) ==
  /\ req' = [req EXCEPT ![r] = R]
  /\ UNCHANGED last

\* the handler in slot r returns or raises: the slot is free again
Respond(r, R, status) ==
  /\ req' = [req EXCEPT ![r] = IdleSlot]
  /\ last' = Response(R, status)

\* middleware.py 22-26: __init__ keeps its parameters and an empty deque per
\* client (clients is a defaultdict(deque): every key reads as an empty deque)
RateLimitMiddleware(calls, period) ==
  [calls |-> calls, period |-> period,
   clients |-> [ip \in ClientIps |-> <<>>]]

\* ---- websocket.py: ConnectionManager, socket by socket --------------------
\* the client sockets and the user_id each one gives in its /ws/{user_id} URL
Sockets == {"w1", "w2", "w3"}

Owner(s) == IF s = "w3" THEN 2 ELSE 1

Accounts == 1..MaxUsers

Range(f) == {f[k] : k \in DOMAIN f}

\* list.remove(x) on a list that holds x once
Without(L, x) == SelectSeq(L, LAMBDA y : y # x)

\* active_connections[u]: key tells whether u is a key of the dict, list is
\* the list object stored under it
NoEntry == [key |-> FALSE, list |-> <<>>]

\* a send_personal_message call: it counts the items its for loop has taken
\* from the list, cur is the socket it is sending to, got the sockets whose
\* send returned, start the list when the call began, detached tells that the
\* list it iterates is no longer the one in the dict
IdleBroadcast ==
  [pc |-> "idle", user |-> 0, it |-> 0, cur |-> "", to_remove |-> <<>>,
   got |-> {}, start |-> <<>>, detached |-> FALSE]

WsInit ==
  /\ active_connections = [u \in Accounts |-> NoEntry]
  /\ sockets = [s \in Sockets |-> "new"]
  /\ broadcasts = [b \in Slots |-> IdleBroadcast]

\* lines 19-27: accept, then the socket is appended to the list of its user_id
connect(s) ==
  /\ UNCHANGED appvars
  /\ sockets[s] = "new"
  /\ sockets' = [sockets EXCEPT ![s] = "up"]
  /\ active_connections' = [active_connections EXCEPT ![Owner(s)] =
        [key |-> TRUE, list |-> Append(@.list, s)]]
  /\ UNCHANGED broadcasts

\* the peer of s goes away: send_text and receive_text on s raise from now on
peer_gone(s) ==
  /\ UNCHANGED appvars
  /\ sockets[s] = "up"
  /\ sockets' = [sockets EXCEPT ![s] = "down"]
  /\ UNCHANGED <<active_connections, broadcasts>>

\* lines 84-88 and 29-39: receive_text raised in the endpoint coroutine of s;
\* s is removed if it is listed and the key of an empty list is deleted, which
\* leaves the calls iterating that list with a list of their own
disconnect(s) ==
  /\ UNCHANGED appvars
  /\ sockets[s] = "down"
  /\ sockets' = [sockets EXCEPT ![s] = "closed"]
  /\ LET u == Owner(s)
         e == active_connections[u]
         l == Without(e.list, s)
     IN IF ~e.key
        THEN UNCHANGED <<active_connections, broadcasts>>
        ELSE IF l # <<>>
        THEN /\ active_connections' = [active_connections EXCEPT ![u].list = l]
             /\ UNCHANGED broadcasts
        ELSE /\ active_connections' = [active_connections EXCEPT ![u] = NoEntry]
             /\ broadcasts' = [b \in Slots |->
                   IF broadcasts[b].pc = "send" /\ broadcasts[b].user = u
                   THEN [broadcasts[b] EXCEPT !.detached = TRUE]
                   ELSE broadcasts[b]]

\* lines 54-56: self.active_connections[user_id].remove(websocket) for each
\* socket of rem; KeyError when the key is gone, ValueError when the socket
\* is not listed
RECURSIVE Prune(_, _)
Prune(e, rem) ==
  IF rem = <<>> THEN [entry |-> e, raised |-> FALSE]
  ELSE IF ~e.key \/ Head(rem) \notin Range(e.list)
  THEN [entry |-> e, raised |-> TRUE]
  ELSE Prune([e EXCEPT !.list = Without(@, Head(rem))], Tail(rem))

\* lines 47-56 from the head of the for loop to the next await: the call B
\* takes the next socket of the list and sends to it, or leaves the loop,
\* prunes and returns (or raises)
Advance(b, B) ==
  LET e == active_connections[B.user]
      L == IF B.detached THEN <<>> ELSE e.list
  IN IF B.it < Len(L)
     THEN /\ broadcasts' = [broadcasts EXCEPT ![b] =
                [B EXCEPT !.cur = L[B.it + 1], !.it = @ + 1, !.pc = "send"]]
          /\ UNCHANGED active_connections
     ELSE LET res == Prune(e, B.to_remove)
          IN /\ active_connections' =
                   [active_connections EXCEPT ![B.user] = res.entry]
             /\ broadcasts' = [broadcasts EXCEPT ![b] =
                   [B EXCEPT !.cur = "",
                             !.pc = IF res.raised THEN "raised" ELSE "returned"]]

\* lines 41-49: a notify_* call of handler b for account u begins; without
\* the key it returns at once
send_personal_message(b, u) ==
  /\ UNCHANGED appvars
  /\ broadcasts[b].pc # "send"
  /\ UNCHANGED sockets
  /\ IF ~active_connections[u].key
     THEN /\ broadcasts' = [broadcasts EXCEPT ![b] =
                [IdleBroadcast EXCEPT !.pc = "returned", !.user = u]]
          /\ UNCHANGED active_connections
     ELSE Advance(b, [IdleBroadcast EXCEPT !.user = u,
                         !.start = active_connections[u].list])

\* lines 49-52: the send_text the call b awaits returns or raises, then the
\* loop goes on
send_text(b) ==
  /\ UNCHANGED appvars
  /\ broadcasts[b].pc = "send"
  /\ UNCHANGED sockets
  /\ LET B == broadcasts[b]
     IN IF sockets[B.cur] = "up"
        THEN Advance(b, [B EXCEPT !.got = @ \cup {B.cur}])
        ELSE Advance(b, [B EXCEPT !.to_remove = Append(@, B.cur)])

\* The database the model starts from: the account "alice" signed up
\* (welcome_bonus +3) and generated two photos, which leaves balance 1.
\* Every state of the model is therefore a state the service reaches from
\* its empty database.
InitUsers ==
  <<[email |-> "admin@photopro.ai", username |-> "alice", plan |-> "free",
     credits |-> 1]>>

InitLedger ==
  <<Transaction(1, 3, "welcome_bonus"),
    Transaction(1, -1, "photo_generation"),
    Transaction(1, -1, "photo_generation")>>

InitPhotos ==
  <<[Photo(1, "corporate", "completed", "-") EXCEPT
        !.processed_url = "u1", !.thumbnail_url = "thumb",
        !.told = "completed", !.created_at = 1],
    [Photo(1, "corporate", "completed", "-") EXCEPT
        !.processed_url = "u1", !.thumbnail_url = "u1",
        !.told = "completed", !.created_at = 2]>>

Init ==
  /\ now = 3
  /\ users = InitUsers
  /\ photos = InitPhotos
  /\ ledger = InitLedger
  /\ req = [r \in Slots |-> IdleSlot]
  /\ running = 0
  /\ faults = 0
  /\ tasks = <<>>
  /\ last = NoResponse
  /\ channel = [u \in 1..MaxUsers |-> "absent"]
  /\ WsInit
  /\ limiter = RateLimitMiddleware(100, 60)
  /\ served = <<>>

\* ---- POST /auth/signup (main.py 127-169) --------------------------------
\* the duplicate check as it would be if it looked at the email only
existing_user_EmailOnly(email, username) ==
  \E i \in UserIds : users[i].email = email

\* lines 132-134: the query for an account with this email or username
existing_user(email, username) ==
  \E i \in UserIds : users[i].email = email \/ users[i].username = username

\* models.py 16-17: unique=True on users.email and on users.username
UniqueViolation(email, username) ==
  \/ \E i \in UserIds : users[i].email = email
  \/ \E i \in UserIds : users[i].username = username

\* lines 131-157: duplicate check, then the users row is committed
Signup(r, email, username) ==
  /\ CanStart(r)
  /\ LET new == [IdleSlot EXCEPT !.op = "signup", !.arg = email,
                                 !.name = username]
     IN IF existing_user(email, username)
        THEN /\ Respond(r, new, "400")
             /\ UNCHANGED <<users, running, faults>>
        ELSE IF UniqueViolation(email, username)
        THEN /\ Respond(r, new, "500")
             /\ UNCHANGED <<users, running, faults>>
        ELSE /\ Len(users) < MaxUsers
             /\ RoomForTx
             /\ \E ok \in CommitOutcomes :
                  IF ok
                  THEN /\ users' = Append(users,
                             [email |-> email, username |-> username,
                              plan |-> "free", credits |-> WelcomeCredits])
                       /\ Continue(r, [new EXCEPT !.pc = "su_tx",
                                                  !.user = Len(users) + 1,
                                                  !.delta = WelcomeCredits])
                       /\ running' = r
                       /\ UNCHANGED faults
                  ELSE /\ Respond(r, new, "500")
                       /\ faults' = faults - 1
                       /\ UNCHANGED <<users, running>>
  /\ UNCHANGED <<photos, ledger, tasks, channel>>
  /\ UNCHANGED untouched

\* lines 159-169: the welcome_bonus transaction is committed on its own
SignupTx(r) ==
  /\ CanStep(r, "su_tx")
  /\ \E ok \in CommitOutcomes :
       IF ok
       THEN /\ ledger' = Append(ledger,
                           Transaction(req[r].user, 3, "welcome_bonus"))
            /\ Respond(r, req[r], "200")
            /\ UNCHANGED faults
       ELSE /\ Respond(r, req[r], "500")
            /\ faults' = faults - 1
            /\ UNCHANGED ledger
  /\ running' = 0
  /\ UNCHANGED <<users, photos, tasks, channel>>
  /\ UNCHANGED untouched

\* ---- websocket.py: ConnectionManager -------------------------------------
\* active_connections[u] of an account with at most one client socket W:
\*   "absent"  u is not a key of active_connections
\*   "live"    [W], the peer is there
\*   "dead"    [W], the peer is gone: send_text raises, and the endpoint
\*             coroutine has not run manager.disconnect yet
\*   "empty"   [], W was removed by send_personal_message (line 56)
ChannelStates == {"absent", "live", "dead", "empty"}

\* lines 19-27: a client of account u opens /ws/{u} (a handler of u that is
\* not running is suspended in a send to the previous socket of u: the client
\* does not reconnect within one send)
WsConnect(u) ==
  /\ running = 0
  /\ channel[u] = "absent"
  /\ \A r \in Slots : req[r].user # u
  /\ channel' = [channel EXCEPT ![u] = "live"]
  /\ UNCHANGED <<users, photos, ledger, req, running, faults, tasks, last>>
  /\ UNCHANGED untouched

\* the peer of account u goes away
WsDrop(u) ==
  /\ channel[u] = "live"
  /\ channel' = [channel EXCEPT ![u] = "dead"]
  /\ UNCHANGED <<users, photos, ledger, req, running, faults, tasks, last>>
  /\ UNCHANGED untouched

\* lines 84-88 and 29-39: receive_text raised in the endpoint coroutine, which
\* removes W if it is still listed and deletes the key of the empty list
WsDisconnect(u) ==
  /\ running = 0
  /\ channel[u] \in {"dead", "empty"}
  /\ channel' = [channel EXCEPT ![u] = "absent"]
  /\ UNCHANGED <<users, photos, ledger, req, running, faults, tasks, last>>
  /\ UNCHANGED untouched

\* lines 41-49: a notify_* call to account u suspends in send_text only when
\* W is listed; who holds the loop once slot r has made the call
AfterNotify(ch, r, u) == IF ch[u] \in {"live", "dead"} THEN 0 ELSE r

\* lines 50-56 when the notify_* call of slot r is resumed: TRUE when it
\* raises.  A call that did not suspend returns; a send that raised puts W in
\* connections_to_remove, and line 56 raises KeyError when the key is gone
\* and ValueError when W is no longer listed
NotifyRaises(r) ==
  IF running = r THEN {FALSE}
  ELSE IF channel[req[r].user] \in {"absent", "empty"} THEN {TRUE, FALSE}
  ELSE {FALSE}

\* line 56: the resumed call removes the W whose send raised
ChannelAfter(r) ==
  IF running # r /\ channel[req[r].user] = "dead"
  THEN [channel EXCEPT ![req[r].user] = "empty"]
  ELSE channel

\* ---- POST /photos/generate (main.py 259-367) ----------------------------
\* what a generate handler reports: its kind, its record, its generator call
GenDone(R) ==
  [Bare("generate") EXCEPT !.user = R.user, !.photo = R.photo,
                           !.calls = R.calls, !.url = R.url]

\* lines 359-365: the handler of any exception raised inside the try block
\* commits the record as failed and calls notify_photo_failed; F is the fault
\* budget left when the handler starts, R the slot's record
GenExcept(r, R, F) ==
  \E ok \in (IF F > 0 THEN {TRUE, FALSE} ELSE {TRUE}) :
    IF ok
    THEN /\ photos' = [photos EXCEPT ![R.photo].status = "failed",
                                      ![R.photo].told = "failed"]
         /\ Continue(r, [R EXCEPT !.pc = "n365"])
         /\ faults' = F
         /\ running' = AfterNotify(channel', r, R.user)
    ELSE /\ Respond(r, GenDone(R), "500")
         /\ faults' = F - 1
         /\ running' = 0
         /\ UNCHANGED photos

\* GenStart as it would be with the credit check off by one (credits < 0)
GenStart_OffByOne(r, u, style) ==
  /\ CanStart(r)
  /\ u \in UserIds
  /\ LET new == [IdleSlot EXCEPT !.op = "generate", !.user = u,
                                 !.arg = style, !.seen = users[u].credits]
     IN IF users[u].credits < 0
        THEN /\ Respond(r, new, "400 Insufficient credits")
             /\ UNCHANGED <<photos, faults, running>>
        ELSE IF ~validate_style(style)
        THEN /\ Respond(r, new, "400 Invalid style")
             /\ UNCHANGED <<photos, faults, running>>
        ELSE /\ Len(photos) < MaxPhotos
             /\ RoomForTx
             /\ \E ok \in CommitOutcomes :
                  IF ok
                  THEN /\ photos' = Append(photos,
                          [Photo(u, style, "processing", "-") EXCEPT
                              !.told = "processing"])
                       /\ Continue(r, [new EXCEPT !.pc = "n288",
                                                  !.photo = Len(photos) + 1])
                       /\ running' = AfterNotify(channel, r, u)
                       /\ UNCHANGED faults
                  ELSE /\ Respond(r, new, "500")
                       /\ faults' = faults - 1
                       /\ UNCHANGED <<photos, running>>
  /\ UNCHANGED <<users, ledger, tasks, channel>>
  /\ UNCHANGED untouched

\* lines 268-288: credit check, style check, the record is committed as
\* processing, then the first notify_photo_status_update is called
GenStart(r, u, style) ==
  /\ CanStart(r)
  /\ u \in UserIds
  /\ LET new == [IdleSlot EXCEPT !.op = "generate", !.user = u,
                                 !.arg = style, !.seen = users[u].credits]
     IN IF users[u].credits < 1
        THEN /\ Respond(r, new, "400 Insufficient credits")
             /\ UNCHANGED <<photos, faults, running>>
        ELSE IF ~validate_style(style)
        THEN /\ Respond(r, new, "400 Invalid style")
             /\ UNCHANGED <<photos, faults, running>>
        ELSE /\ Len(photos) < MaxPhotos
             /\ RoomForTx
             /\ \E ok \in CommitOutcomes :
                  IF ok
                  THEN /\ photos' = Append(photos,
                          [Photo(u, style, "processing", "-") EXCEPT
                              !.told = "processing"])
                       /\ Continue(r, [new EXCEPT !.pc = "n288",
                                                  !.photo = Len(photos) + 1])
                       /\ running' = AfterNotify(channel, r, u)
                       /\ UNCHANGED faults
                  ELSE /\ Respond(r, new, "500")
                       /\ faults' = faults - 1
                       /\ UNCHANGED <<photos, running>>
  /\ UNCHANGED <<users, ledger, tasks, channel>>
  /\ UNCHANGED untouched

\* lines 288-292: the first notification returns or raises (outside the try
\* block: the request ends 500 with its record left as it is), then the
\* second notify_photo_status_update is called
GenNotified(r) ==
  /\ CanStep(r, "n288")
  /\ channel' = ChannelAfter(r)
  /\ \E raised \in NotifyRaises(r) :
       IF raised
       THEN /\ Respond(r, GenDone(req[r]), "500")
            /\ running' = 0
       ELSE /\ Continue(r, [req[r] EXCEPT !.pc = "n292"])
            /\ running' = AfterNotify(channel', r, req[r].user)
  /\ UNCHANGED <<users, photos, ledger, faults, tasks>>
  /\ UNCHANGED untouched

\* GenCall as it would be without the check for an empty output
GenCall_IgnoreEmpty(r, raises, output) ==
  /\ CanStep(r, "n292")
  /\ channel' = ChannelAfter(r)
  /\ \E raised \in NotifyRaises(r) :
       IF raised
       THEN GenExcept(r, req[r], faults)
       ELSE LET R == [req[r] EXCEPT !.calls = @ + 1]
                processed_url == IF output # <<>> THEN output[1] ELSE ""
            IN IF raises
               THEN GenExcept(r, R, faults)
               ELSE /\ Continue(r, [R EXCEPT !.pc = "n312",
                                             !.url = processed_url])
                    /\ running' = AfterNotify(channel', r, R.user)
                    /\ UNCHANGED <<photos, faults>>
  /\ UNCHANGED <<users, ledger, tasks>>
  /\ UNCHANGED untouched

\* lines 292-312: the second notification returns or raises; replicate's run
\* is called once (a blocking call: the loop is not released); an exception
\* or an empty output goes to the except handler, otherwise the third
\* notify_photo_status_update is called
GenCall(r, raises, output) ==
  /\ CanStep(r, "n292")
  /\ channel' = ChannelAfter(r)
  /\ \E raised \in NotifyRaises(r) :
       IF raised
       THEN GenExcept(r, req[r], faults)
       ELSE LET R == [req[r] EXCEPT !.calls = @ + 1]
                processed_url == IF output # <<>> THEN output[1] ELSE ""
            IN IF raises \/ processed_url = ""
               THEN GenExcept(r, R, faults)
               ELSE /\ Continue(r, [R EXCEPT !.pc = "n312",
                                             !.url = processed_url])
                    /\ running' = AfterNotify(channel', r, R.user)
                    /\ UNCHANGED <<photos, faults>>
  /\ UNCHANGED <<users, ledger, tasks>>
  /\ UNCHANGED untouched

\* lines 312-337: the third notification returns or raises; thumbnail (falls
\* back to processed_url when the upload fails), then the record is committed
\* as completed
GenPersist(r, uploaded) ==
  /\ CanStep(r, "n312")
  /\ channel' = ChannelAfter(r)
  /\ \E raised \in NotifyRaises(r) :
       IF raised
       THEN GenExcept(r, req[r], faults)
       ELSE \E ok \in CommitOutcomes :
              IF ok
              THEN /\ photos' = [photos EXCEPT ![req[r].photo] =
                         [@ EXCEPT !.processed_url = req[r].url,
                                   !.thumbnail_url =
                                      IF uploaded THEN "thumb" ELSE req[r].url,
                                   !.status = "completed"]]
                   /\ Continue(r, [req[r] EXCEPT !.pc = "deduct"])
                   /\ running' = r
                   /\ UNCHANGED faults
              ELSE GenExcept(r, req[r], faults - 1)
  /\ UNCHANGED <<users, ledger, tasks>>
  /\ UNCHANGED untouched

\* GenDeduct as it would be if it checked the reloaded balance again
GenDeduct_Recheck(r) ==
  /\ CanStep(r, "deduct")
  /\ UNCHANGED channel
  /\ IF users[req[r].user].credits < 1
     THEN /\ GenExcept(r, req[r], faults)
          /\ UNCHANGED users
     ELSE /\ users' = [users EXCEPT ![req[r].user].credits = @ - 1]
          /\ Continue(r, [req[r] EXCEPT !.pc = "ledger", !.delta = @ - 1])
          /\ running' = r
          /\ UNCHANGED <<photos, faults>>
  /\ UNCHANGED <<ledger, tasks>>
  /\ UNCHANGED untouched

\* lines 339-341: current_user.credits -= 1 on the row as reloaded after the
\* previous commit, committed on its own
GenDeduct(r) ==
  /\ CanStep(r, "deduct")
  /\ UNCHANGED channel
  /\ \E ok \in CommitOutcomes :
       IF ok
       THEN /\ users' = [users EXCEPT ![req[r].user].credits = @ - 1]
            /\ Continue(r, [req[r] EXCEPT !.pc = "ledger", !.delta = @ - 1])
            /\ running' = r
            /\ UNCHANGED <<photos, faults>>
       ELSE /\ GenExcept(r, req[r], faults - 1)
            /\ UNCHANGED users
  /\ UNCHANGED <<ledger, tasks>>
  /\ UNCHANGED untouched

\* lines 343-354: the photo_generation transaction is committed on its own,
\* then notify_photo_completed is called
GenLedger(r) ==
  /\ CanStep(r, "ledger")
  /\ UNCHANGED channel
  /\ \E ok \in CommitOutcomes :
       LET t == Transaction(req[r].user, -1, "photo_generation")
       IN IF ok
          THEN /\ ledger' = Append(ledger, t)
               /\ Continue(r, [req[r] EXCEPT !.pc = "n354",
                                             !.txs = Append(@, t)])
               /\ running' = AfterNotify(channel, r, req[r].user)
               /\ photos' = [photos EXCEPT ![req[r].photo].told = "completed"]
               /\ UNCHANGED faults
          ELSE /\ GenExcept(r, req[r], faults - 1)
               /\ UNCHANGED ledger
  /\ UNCHANGED <<users, tasks>>
  /\ UNCHANGED untouched

\* lines 354-355: notify_photo_completed returns or raises (inside the try
\* block), then notify_credits_updated is called
GenCompleted(r) ==
  /\ CanStep(r, "n354")
  /\ channel' = ChannelAfter(r)
  /\ \E raised \in NotifyRaises(r) :
       IF raised
       THEN GenExcept(r, req[r], faults)
       ELSE /\ Continue(r, [req[r] EXCEPT !.pc = "n355"])
            /\ running' = AfterNotify(channel', r, req[r].user)
            /\ UNCHANGED <<photos, faults>>
  /\ UNCHANGED <<users, ledger, tasks>>
  /\ UNCHANGED untouched

\* lines 355-357: notify_credits_updated returns or raises, then return photo
GenReturn(r) ==
  /\ CanStep(r, "n355")
  /\ channel' = ChannelAfter(r)
  /\ \E raised \in NotifyRaises(r) :
       IF raised
       THEN GenExcept(r, req[r], faults)
       ELSE /\ Respond(r, GenDone(req[r]), "200")
            /\ running' = 0
            /\ UNCHANGED <<photos, faults>>
  /\ UNCHANGED <<users, ledger, tasks>>
  /\ UNCHANGED untouched

\* lines 365-367: notify_photo_failed returns or raises; either way the
\* request ends with HTTP 500
GenFailed(r) ==
  /\ CanStep(r, "n365")
  /\ channel' = ChannelAfter(r)
  /\ Respond(r, GenDone(req[r]), "500")
  /\ running' = 0
  /\ UNCHANGED <<users, photos, ledger, faults, tasks>>
  /\ UNCHANGED untouched

\* ---- app.py: the application gunicorn.conf.py serves ("app:app") ----------
\* credits given to a new account by app.py's signup (line 293)
AppSignupCredits == 10

\* app.py 269-295: signup checks email, then username, and commits the users
\* row with its 10 credits; no transaction is written
AppSignup(r, email, username) ==
  /\ CanStart(r)
  /\ LET new == [IdleSlot EXCEPT !.op = "app_signup", !.arg = email,
                                 !.name = username]
     IN IF existing_user(email, username)
        THEN /\ Respond(r, new, "400")
             /\ UNCHANGED users
        ELSE /\ Len(users) < MaxUsers
             /\ users' = Append(users,
                   [email |-> email, username |-> username,
                    plan |-> "free", credits |-> AppSignupCredits])
             /\ Respond(r, [new EXCEPT !.user = Len(users) + 1], "200")
  /\ UNCHANGED <<photos, ledger, faults, tasks, channel, running>>
  /\ UNCHANGED untouched

\* app.py 525-529: the inner except handler commits the record as failed and
\* raises HTTP 500; the balance is not touched
AppGenExcept(r, R) ==
  /\ photos' = [photos EXCEPT ![R.photo].status = "failed"]
  /\ Respond(r, GenDone(R), "500")
  /\ running' = 0

\* app.py 402-417: credit check on the user loaded by get_current_user, then
\* the record is committed as processing on the handler's own session; the
\* style is stored as given
AppGenStart(r, u, style) ==
  /\ CanStart(r)
  /\ u \in UserIds
  /\ LET new == [IdleSlot EXCEPT !.op = "app_generate", !.user = u,
                                 !.arg = style, !.seen = users[u].credits]
     IN IF users[u].credits < 1
        THEN /\ Respond(r, new, "400 Insufficient credits")
             /\ UNCHANGED <<photos, running>>
        ELSE /\ Len(photos) < MaxPhotos
             /\ RoomForTx
             /\ photos' = Append(photos, Photo(u, style, "processing", "-"))
             /\ Continue(r, [new EXCEPT !.pc = "a420",
                                        !.photo = Len(photos) + 1])
             /\ running' = r
  /\ UNCHANGED <<users, ledger, faults, tasks, channel>>
  /\ UNCHANGED untouched

\* app.py 420-421: current_user.credits -= 1 on the object of the session
\* get_current_user opened (seen is its credits attribute); db.commit() is on
\* the handler's own session, which does not hold that object, and
\* get_db (30-35) closes the other session without a commit: the users row
\* is never written
AppGenDeduct(r) ==
  /\ CanStep(r, "a420")
  /\ Continue(r, [req[r] EXCEPT !.pc = "a457", !.seen = @ - 1,
                                !.delta = @ - 1])
  /\ running' = r
  /\ UNCHANGED <<users, photos, ledger, faults, tasks, channel>>
  /\ UNCHANGED untouched

\* app.py 457-472: replicate's run is called once; an exception or an empty
\* output goes to the inner except handler
AppGenCall(r, raises, output) ==
  /\ CanStep(r, "a457")
  /\ LET R == [req[r] EXCEPT !.calls = @ + 1]
         processed_url == IF output # <<>> THEN output[1] ELSE ""
     IN IF raises \/ processed_url = ""
        THEN AppGenExcept(r, R)
        ELSE /\ Continue(r, [R EXCEPT !.pc = "a474", !.url = processed_url])
             /\ running' = r
             /\ UNCHANGED photos
  /\ UNCHANGED <<users, ledger, faults, tasks, channel>>
  /\ UNCHANGED untouched

\* app.py 474-501: the record is committed as completed with the uploaded
\* copy's url, or with the generator's url when the upload fails (storage's
\* coroutines hold no await: the loop is not released)
AppGenPersist(r, uploaded) ==
  /\ CanStep(r, "a474")
  /\ photos' = [photos EXCEPT ![req[r].photo] =
        [@ EXCEPT !.processed_url = IF uploaded THEN "cdn" ELSE req[r].url,
                  !.status = "completed"]]
  /\ Continue(r, [req[r] EXCEPT !.pc = "a504"])
  /\ running' = r
  /\ UNCHANGED <<users, ledger, faults, tasks, channel>>
  /\ UNCHANGED untouched

\* app.py 504-523: the photo_generation transaction is committed, then the
\* response is returned
AppGenLedger(r) ==
  /\ CanStep(r, "a504")
  /\ ledger' = Append(ledger,
                      Transaction(req[r].user, -1, "photo_generation"))
  /\ Respond(r, GenDone(req[r]), "200")
  /\ running' = 0
  /\ UNCHANGED <<users, photos, faults, tasks, channel>>
  /\ UNCHANGED untouched

\* ---- GET /photos/history (main.py 402-413) ------------------------------
\* the wall clock (datetime.utcnow(), time.time()) moves on; between two
\* readings it may not have moved (its resolution, and the column's, are
\* finite)
Tick ==
  /\ now < MaxClock
  /\ now' = now + 1
  /\ UNCHANGED <<users, photos, ledger, req, running, faults, tasks, last,
                 channel, limiter, served>>
  /\ UNCHANGED wsvars

\* line 409: filter(GeneratedPhoto.user_id == current_user.id)
Owned(u) == {i \in 1..Len(photos) : photos[i].user_id = u}

\* line 411: order_by(created_at.desc()).limit(20): the lists the database
\* may return; rows with equal created_at come in an order, and fall on
\* either side of the limit, as the database pleases
HistoryRows(u) ==
  LET own == Owned(u)
      k == IF Cardinality(own) < HistoryLimit THEN Cardinality(own)
           ELSE HistoryLimit
  IN {s \in [1..k -> own] :
        /\ \A a, b \in 1..k :
             a < b => /\ s[a] # s[b]
                      /\ photos[s[a]].created_at >= photos[s[b]].created_at
        /\ \A i \in own \ Range(s), a \in 1..k :
             photos[i].created_at <= photos[s[a]].created_at}

\* lines 402-413: the handler holds no await; it returns the rows
get_photo_history(r, u) ==
  /\ CanStart(r)
  /\ u \in UserIds
  /\ \E rows \in HistoryRows(u) :
       Respond(r, [Bare("history") EXCEPT !.user = u, !.rows = rows], "200")
  /\ UNCHANGED <<users, photos, ledger, running, faults, tasks, channel>>
  /\ UNCHANGED untouched

\* ---- GET /photos/{photo_id} (main.py 416-432) ---------------------------
\* MatchingPhoto as it would be without the filter on the owner
MatchingPhoto_AnyOwner(u, photo_id) ==
  {i \in 1..Len(photos) : i = photo_id}

\* lines 425-428: filter(GeneratedPhoto.id == photo_id,
\* GeneratedPhoto.user_id == current_user.id)
MatchingPhoto(u, photo_id) ==
  {i \in 1..Len(photos) : i = photo_id /\ photos[i].user_id = u}

\* lines 416-432: the row is returned, or 404 "Photo not found" when the
\* query finds none; the handler holds no await
get_photo_details(r, u, photo_id) ==
  /\ CanStart(r)
  /\ u \in UserIds
  /\ LET new == [Bare("details") EXCEPT !.user = u, !.photo = photo_id]
         found == MatchingPhoto(u, photo_id)
     IN IF found = {}
        THEN Respond(r, [new EXCEPT !.arg = "Photo not found"], "404")
        ELSE \E i \in found :
               Respond(r, [new EXCEPT !.rows = <<i>>,
                                      !.arg = photos[i].status,
                                      !.url = photos[i].processed_url], "200")
  /\ UNCHANGED <<users, photos, ledger, running, faults, tasks, channel>>
  /\ UNCHANGED untouched

\* ---- BatchProcessor.get_batch_status (batch_processing.py 170-218) ------
\* models.py 36-44: the columns of GeneratedPhoto
GeneratedPhotoColumns ==
  {"id", "user_id", "style", "original_url", "processed_url",
   "thumbnail_url", "credits_used", "status", "created_at"}

\* lines 174-176 and 183-184: the attributes of GeneratedPhoto the query and
\* the count read
BatchStatusReads == {"batch_id", "status"}

\* line 175: GeneratedPhoto.batch_id raises AttributeError when the class has
\* no such column
QueryRaises ==
  ~(BatchStatusReads \subseteq GeneratedPhotoColumns)

\* lines 182-184 and 187-189: status_counts.get(status, 0)
StatusCount(rows, status) ==
  Cardinality({i \in rows : photos[i].status = status})

\* lines 186-199: the overall status of the rows
overall_status(rows) ==
  LET total_photos == Cardinality(rows)
      completed_photos == StatusCount(rows, "completed")
      failed_photos == StatusCount(rows, "failed")
      processing_photos == StatusCount(rows, "processing")
  IN IF completed_photos = total_photos THEN "completed"
     ELSE IF failed_photos > 0 /\
             completed_photos + failed_photos = total_photos
     THEN "completed_with_errors"
     ELSE IF processing_photos > 0 \/ StatusCount(rows, "queued") > 0
     THEN "processing"
     ELSE "failed"

\* lines 170-218 for the batch made of all the rows of the table: the query
\* raises, or finds no row (404), or the counts and the overall status are
\* returned
get_batch_status(r) ==
  /\ CanStart(r)
  /\ LET new == Bare("batch_status")
         rows == 1..Len(photos)
     IN IF QueryRaises
        THEN Respond(r, new, "500")
        ELSE IF rows = {}
        THEN Respond(r, new, "404")
        ELSE Respond(r, [new EXCEPT
                  !.n = Cardinality(rows),
                  !.arg = overall_status(rows),
                  !.rows = <<StatusCount(rows, "completed"),
                             StatusCount(rows, "failed"),
                             StatusCount(rows, "processing")>>], "200")
  /\ UNCHANGED <<users, photos, ledger, running, faults, tasks, channel>>
  /\ UNCHANGED untouched

\* ---- middleware.py: RateLimitMiddleware (19-47) --------------------------
RECURSIVE Expire_KeepBoundary(_, _)
RECURSIVE Expire(_, _)

\* Expire as it would be if an entry exactly period old were kept
Expire_KeepBoundary(q, t) ==
  IF q # <<>> /\ q[1] < t THEN Expire_KeepBoundary(Tail(q), t) ELSE q

\* lines 33-34: entries are popped from the left while the leftmost one is
\* not later than t (t is now - self.period)
Expire(q, t) ==
  IF q # <<>> /\ q[1] <= t THEN Expire(Tail(q), t) ELSE q

\* lines 28-47: the entries of the client are cleaned, then the request is
\* answered 429 or recorded and handed to the application (call_next); no
\* await stands between the check and the append
dispatch(ip) ==
  /\ Len(served) < MaxServed
  /\ LET kept == Expire(limiter.clients[ip], now - limiter.period)
         new == [Bare("dispatch") EXCEPT !.arg = ip]
     IN IF Len(kept) >= limiter.calls
        THEN /\ limiter' = [limiter EXCEPT !.clients[ip] = kept]
             /\ last' = Response(new, "429")
             /\ UNCHANGED served
        ELSE /\ limiter' = [limiter EXCEPT !.clients[ip] = Append(kept, now)]
             /\ last' = Response(new, "forwarded")
             /\ served' = Append(served, [ip |-> ip, at |-> now])
  /\ UNCHANGED <<users, photos, ledger, req, running, faults, tasks, channel,
                 now>>
  /\ UNCHANGED wsvars

\* ---- POST /credits/purchase (main.py 436-479) ---------------------------
\* schemas.py 94-99 (validate_plan), then lines 451-463: the plan and the
\* balance are committed
PurchaseStart(r, u, plan) ==
  /\ CanStart(r)
  /\ u \in UserIds
  /\ LET new == [IdleSlot EXCEPT !.op = "purchase", !.user = u, !.arg = plan,
                                 !.seen = users[u].credits]
         credits_to_add == plans[plan] - users[u].credits
     IN IF plan \notin {"free", "pro", "enterprise"}
        THEN /\ Respond(r, new, "422")
             /\ UNCHANGED <<users, running, faults>>
        ELSE IF plan \notin DOMAIN plans \/ credits_to_add <= 0
        THEN /\ Respond(r, new, "400")
             /\ UNCHANGED <<users, running, faults>>
        ELSE /\ RoomForTx
             /\ \E ok \in CommitOutcomes :
                  IF ok
                  THEN /\ users' = [users EXCEPT ![u].plan = plan,
                                       ![u].credits = @ + credits_to_add]
                       /\ Continue(r, [new EXCEPT !.pc = "p_tx",
                                                  !.n = credits_to_add,
                                                  !.delta = credits_to_add])
                       /\ running' = r
                       /\ UNCHANGED faults
                  ELSE /\ Respond(r, new, "500")
                       /\ faults' = faults - 1
                       /\ UNCHANGED <<users, running>>
  /\ UNCHANGED <<photos, ledger, tasks, channel>>
  /\ UNCHANGED untouched

\* lines 465-479: the purchase transaction is committed on its own
PurchaseTx(r) ==
  /\ CanStep(r, "p_tx")
  /\ \E ok \in CommitOutcomes :
       IF ok
       THEN /\ ledger' = Append(ledger,
                           Transaction(req[r].user, req[r].n, "purchase"))
            /\ Respond(r, req[r], "200")
            /\ UNCHANGED faults
       ELSE /\ Respond(r, req[r], "500")
            /\ faults' = faults - 1
            /\ UNCHANGED ledger
  /\ running' = 0
  /\ UNCHANGED <<users, photos, tasks, channel>>
  /\ UNCHANGED untouched

\* ---- POST /admin/users/{user_id}/add-credits (admin.py 199-237) ---------
\* lines 209-221: admin check, amount check, lookup, the balance is committed
AdminStart(r, u, user_id, amount) ==
  /\ CanStart(r)
  /\ u \in UserIds
  /\ LET new == [IdleSlot EXCEPT !.op = "admin", !.user = u,
                                 !.target = user_id, !.n = amount]
     IN IF ~is_admin(users[u])
        THEN /\ Respond(r, new, "403")
             /\ UNCHANGED <<users, running, faults>>
        ELSE IF amount <= 0
        THEN /\ Respond(r, new, "400")
             /\ UNCHANGED <<users, running, faults>>
        ELSE IF user_id \notin UserIds
        THEN /\ Respond(r, new, "404")
             /\ UNCHANGED <<users, running, faults>>
        ELSE /\ RoomForTx
             /\ \E ok \in CommitOutcomes :
                  IF ok
                  THEN /\ users' = [users EXCEPT ![user_id].credits = @ + amount]
                       /\ Continue(r, [new EXCEPT !.pc = "a_tx",
                                                  !.delta = amount])
                       /\ running' = r
                       /\ UNCHANGED faults
                  ELSE /\ Respond(r, new, "500")
                       /\ faults' = faults - 1
                       /\ UNCHANGED <<users, running>>
  /\ UNCHANGED <<photos, ledger, tasks, channel>>
  /\ UNCHANGED untouched

\* lines 223-237: the admin_adjustment transaction is committed on its own
AdminTx(r) ==
  /\ CanStep(r, "a_tx")
  /\ \E ok \in CommitOutcomes :
       IF ok
       THEN /\ ledger' = Append(ledger,
                 Transaction(req[r].target, req[r].n, "admin_adjustment"))
            /\ Respond(r, req[r], "200")
            /\ UNCHANGED faults
       ELSE /\ Respond(r, req[r], "500")
            /\ faults' = faults - 1
            /\ UNCHANGED ledger
  /\ running' = 0
  /\ UNCHANGED <<users, photos, tasks, channel>>
  /\ UNCHANGED untouched

\* ---- BatchProcessor (batch_processing.py) -------------------------------
\* schemas.py 61-64: the fields of a PhotoGenerate item
PhotoGenerateFields == {"original_url", "style"}

\* lines 61-63: the attributes process_batch reads from each item
BatchItemReads == {"original_url", "style", "prompt"}

\* ItemRaises as it would be if every attribute the loop reads were a field
ItemRaises_Readable ==
  FALSE

\* line 63: reading an attribute the item does not have raises AttributeError
ItemRaises ==
  ~(BatchItemReads \subseteq PhotoGenerateFields)

\* process_batch lines 44-70 and 102-105: credit check; building the record
\* of the first item raises inside the try block (rollback of a session with
\* nothing flushed, HTTP 500); with no item, or were the items readable, the
\* N records are committed as queued
BatchStart(r, u, N) ==
  /\ CanStart(r)
  /\ u \in UserIds
  /\ LET new == [IdleSlot EXCEPT !.op = "batch", !.user = u, !.n = N,
                                 !.seen = users[u].credits]
     IN IF users[u].credits < N
        THEN /\ Respond(r, new, "400")
             /\ UNCHANGED <<photos, running, faults>>
        ELSE IF N >= 1 /\ ItemRaises
        THEN /\ Respond(r, new, "500")
             /\ UNCHANGED <<photos, running, faults>>
        ELSE /\ Len(photos) + N <= MaxPhotos
             /\ RoomForTx
             /\ \E ok \in CommitOutcomes :
                  IF ok
                  THEN /\ photos' = photos \o
                          [k \in 1..N |-> Photo(u, "corporate", "queued", "queued")]
                       /\ Continue(r, [new EXCEPT !.pc = "b_deduct",
                             !.batch = [k \in 1..N |-> Len(photos) + k]])
                       /\ running' = r
                       /\ UNCHANGED faults
                  ELSE /\ Respond(r, new, "500")
                       /\ faults' = faults - 1
                       /\ UNCHANGED <<photos, running>>
  /\ UNCHANGED <<users, ledger, tasks, channel>>
  /\ UNCHANGED untouched

\* lines 72-74 (and 102-105 when the commit raises: db.rollback() undoes
\* nothing that was committed)
BatchDeduct(r) ==
  /\ CanStep(r, "b_deduct")
  /\ \E ok \in CommitOutcomes :
       IF ok
       THEN /\ users' = [users EXCEPT ![req[r].user].credits = @ - req[r].n]
            /\ Continue(r, [req[r] EXCEPT !.pc = "b_tx",
                                          !.delta = @ - req[r].n])
            /\ running' = r
            /\ UNCHANGED faults
       ELSE /\ Respond(r, req[r], "500")
            /\ faults' = faults - 1
            /\ running' = 0
            /\ UNCHANGED users
  /\ UNCHANGED <<photos, ledger, tasks, channel>>
  /\ UNCHANGED untouched

\* lines 76-100: the aggregate transaction is committed, the background task
\* is scheduled and the handler returns
BatchTx(r) ==
  /\ CanStep(r, "b_tx")
  /\ \E ok \in CommitOutcomes :
       IF ok
       THEN /\ ledger' = Append(ledger,
                 Transaction(req[r].user, -req[r].n, "batch_photo_generation"))
            /\ tasks' = IF req[r].batch = <<>> THEN tasks
                        ELSE Append(tasks,
                               [photos |-> req[r].batch, i |-> 1, pc |-> "mark"])
            /\ Respond(r, req[r], "200")
            /\ UNCHANGED faults
       ELSE /\ Respond(r, req[r], "500")
            /\ faults' = faults - 1
            /\ UNCHANGED <<ledger, tasks>>
  /\ running' = 0
  /\ UNCHANGED <<users, photos, channel>>
  /\ UNCHANGED untouched

\* the background coroutine t holds the loop as -t
TaskCanStep(t, at) ==
  /\ t \in 1..Len(tasks)
  /\ tasks[t].pc = at
  /\ running \in {0, -t}

\* _process_batch_background lines 116-120: the status is set on the object
\* the task holds; nothing is written to the database
BgMark(t) ==
  /\ TaskCanStep(t, "mark")
  /\ photos' = [photos EXCEPT ![tasks[t].photos[tasks[t].i]].mem = "processing"]
  /\ tasks' = [tasks EXCEPT ![t].pc = "process"]
  /\ running' = -t
  /\ UNCHANGED <<users, ledger, req, faults, last, channel>>
  /\ UNCHANGED untouched

\* the sequence s without its t-th element
Remove(s, t) == [k \in 1..(Len(s) - 1) |-> IF k < t THEN s[k] ELSE s[k + 1]]

\* _process_single_photo lines 133-168, then lines 125-127: the task sleeps
\* before the next item, or ends after the last one
BgProcess(t, raises, output) ==
  /\ TaskCanStep(t, "process")
  /\ LET id == tasks[t].photos[tasks[t].i]
         good == ~raises /\ Len(output) > 0
     IN photos' = [photos EXCEPT ![id].mem =
                      IF good THEN "completed" ELSE "failed"]
  /\ tasks' = IF tasks[t].i < Len(tasks[t].photos)
              THEN [tasks EXCEPT ![t].pc = "sleep"]
              ELSE Remove(tasks, t)
  /\ running' = 0
  /\ UNCHANGED <<users, ledger, req, faults, last, channel>>
  /\ UNCHANGED untouched

\* resumed after asyncio.sleep(2): the next item of the loop
BgWake(t) ==
  /\ TaskCanStep(t, "sleep")
  /\ tasks' = [tasks EXCEPT ![t].pc = "mark", ![t].i = @ + 1]
  /\ running' = -t
  /\ UNCHANGED <<users, photos, ledger, req, faults, last, channel>>
  /\ UNCHANGED untouched

ManagerSteps ==
  \/ \E s \in Sockets : connect(s)
  \/ \E s \in Sockets : peer_gone(s)
  \/ \E s \in Sockets : disconnect(s)
  \/ \E b \in Slots, u \in Accounts : send_personal_message(b, u)
  \/ \E b \in Slots : send_text(b)

SpecManager == Init /\ [][ManagerSteps]_vars

\* ---- specifications -----------------------------------------------------
SignupSteps ==
  \/ \E r \in Slots, e \in Emails, n \in Usernames : Signup(r, e, n)
  \/ \E r \in Slots : SignupTx(r)

GenerateSteps ==
  \/ \E r \in Slots, u \in 1..MaxUsers, s \in StyleInputs : GenStart(r, u, s)
  \/ \E r \in Slots, x \in BOOLEAN, o \in GenOutputs : GenCall(r, x, o)
  \/ \E r \in Slots, up \in BOOLEAN : GenPersist(r, up)
  \/ \E r \in Slots : GenDeduct(r)
  \/ \E r \in Slots : GenLedger(r)
  \/ \E r \in Slots : GenNotified(r)
  \/ \E r \in Slots : GenCompleted(r)
  \/ \E r \in Slots : GenReturn(r)
  \/ \E r \in Slots : GenFailed(r)

\* the clients that open a websocket: the one of the first account
WsClients == {1}

WsSteps ==
  \/ \E u \in WsClients : WsConnect(u)
  \/ \E u \in WsClients : WsDrop(u)
  \/ \E u \in WsClients : WsDisconnect(u)

PurchaseSteps ==
  \/ \E r \in Slots, u \in 1..MaxUsers, p \in PlanInputs : PurchaseStart(r, u, p)
  \/ \E r \in Slots : PurchaseTx(r)

AdminSteps ==
  \/ \E r \in Slots, u \in 1..MaxUsers, v \in 1..(MaxUsers + 1),
        a \in AdminAmounts : AdminStart(r, u, v, a)
  \/ \E r \in Slots : AdminTx(r)

BatchSteps ==
  \/ \E r \in Slots, u \in 1..MaxUsers, N \in 0..MaxBatch : BatchStart(r, u, N)
  \/ \E r \in Slots : BatchDeduct(r)
  \/ \E r \in Slots : BatchTx(r)

BackgroundSteps ==
  \/ \E t \in 1..MaxPhotos : BgMark(t)
  \/ \E t \in 1..MaxPhotos, x \in BOOLEAN, o \in GenOutputs : BgProcess(t, x, o)
  \/ \E t \in 1..MaxPhotos : BgWake(t)

\* the whole service, every commit succeeding
Next ==
  \/ SignupSteps
  \/ GenerateSteps
  \/ WsSteps
  \/ PurchaseSteps
  \/ AdminSteps
  \/ BatchSteps

Spec == Init /\ [][Next]_vars

\* signup and single-item generation only, every commit succeeding
NextCore ==
  \/ SignupSteps
  \/ GenerateSteps
  \/ WsSteps

SpecCore == Init /\ [][NextCore]_vars

\* generation, purchase and admin add-credits when db.commit() may raise
\* (MaxFaults times in one run)
InitFault ==
  /\ now = 3
  /\ users = InitUsers
  /\ photos = InitPhotos
  /\ ledger = InitLedger
  /\ req = [r \in Slots |-> IdleSlot]
  /\ running = 0
  /\ faults = MaxFaults
  /\ tasks = <<>>
  /\ last = NoResponse
  /\ channel = [u \in 1..MaxUsers |-> "absent"]
  /\ WsInit
  /\ limiter = RateLimitMiddleware(100, 60)
  /\ served = <<>>

NextFault ==
  \/ GenerateSteps
  \/ PurchaseSteps
  \/ AdminSteps

SpecFault == InitFault /\ [][NextFault]_vars

\* batch requests, with purchases and admin adjustments to fund them
NextBatch ==
  \/ BatchSteps
  \/ PurchaseSteps
  \/ AdminSteps

SpecBatch == Init /\ [][NextBatch]_vars

\* the same requests while db.commit() can raise
SpecBatchFault == InitFault /\ [][NextBatch]_vars

\* _process_batch_background applied to a list of MaxBatch records of the
\* first account, as process_batch hands them to add_task (lines 86-92),
\* while purchases and admin adjustments are served
BackgroundPhotos ==
  [k \in 1..MaxBatch |-> Photo(1, "corporate", "queued", "queued")]

InitBackground ==
  /\ now = 3
  /\ users = InitUsers
  /\ photos = BackgroundPhotos
  /\ ledger = InitLedger
  /\ req = [r \in Slots |-> IdleSlot]
  /\ running = 0
  /\ faults = 0
  /\ tasks = <<[photos |-> [k \in 1..MaxBatch |-> k], i |-> 1, pc |-> "mark"]>>
  /\ last = NoResponse
  /\ channel = [u \in 1..MaxUsers |-> "absent"]
  /\ WsInit
  /\ limiter = RateLimitMiddleware(100, 60)
  /\ served = <<>>

NextBackground ==
  \/ BackgroundSteps
  \/ PurchaseSteps
  \/ AdminSteps

SpecBackground == InitBackground /\ [][NextBackground]_vars

\* the event loop runs every coroutine that is ready: the background task
\* is resumed whenever it is ready again and again, and a handler that holds
\* the loop goes on to its return
BackgroundFairness ==
  /\ SF_vars(BackgroundSteps)
  /\ WF_vars(\E r \in Slots : PurchaseTx(r))
  /\ WF_vars(\E r \in Slots : AdminTx(r))

SpecBackgroundLive ==
  InitBackground /\ [][NextBackground]_vars /\ BackgroundFairness

\* the requests app.py serves
AppSteps ==
  \/ \E r \in Slots, e \in Emails, n \in Usernames : AppSignup(r, e, n)
  \/ \E r \in Slots, u \in 1..MaxUsers, s \in StyleInputs : AppGenStart(r, u, s)
  \/ \E r \in Slots : AppGenDeduct(r)
  \/ \E r \in Slots, raises \in BOOLEAN, o \in GenOutputs :
        AppGenCall(r, raises, o)
  \/ \E r \in Slots, up \in BOOLEAN : AppGenPersist(r, up)
  \/ \E r \in Slots : AppGenLedger(r)

\* the deployed application alone, on the same tables
SpecApp == Init /\ [][AppSteps]_vars

HistorySteps ==
  \/ Tick
  \/ \E r \in Slots, u \in 1..MaxUsers : get_photo_history(r, u)

\* signup, generation and history requests while the clock runs
NextHistory ==
  \/ SignupSteps
  \/ GenerateSteps
  \/ HistorySteps

SpecHistory == Init /\ [][NextHistory]_vars

LimiterSteps ==
  \/ Tick
  \/ \E ip \in ClientIps : dispatch(ip)

\* the middleware alone, built with any small calls and period, from the
\* start of the clock
InitLimiter ==
  /\ now = 0
  /\ users = InitUsers
  /\ photos = InitPhotos
  /\ ledger = InitLedger
  /\ req = [r \in Slots |-> IdleSlot]
  /\ running = 0
  /\ faults = 0
  /\ tasks = <<>>
  /\ last = NoResponse
  /\ channel = [u \in 1..MaxUsers |-> "absent"]
  /\ WsInit
  /\ limiter \in {RateLimitMiddleware(c, p) : c \in 1..MaxCalls,
                                              p \in 1..MaxPeriod}
  /\ served = <<>>

SpecLimiter == InitLimiter /\ [][LimiterSteps]_vars

DetailsSteps ==
  \E r \in Slots, u \in 1..MaxUsers, i \in 1..(MaxPhotos + 1) :
     get_photo_details(r, u, i)

\* signup, generation and photo details requests
NextDetails ==
  \/ SignupSteps
  \/ GenerateSteps
  \/ DetailsSteps

SpecDetails == Init /\ [][NextDetails]_vars

\* the statuses a record of a batch can have (batch_processing.py 64, 119,
\* 162, 164)
BatchStatuses == {"queued", "processing", "completed", "failed"}

\* get_batch_status applied to any batch of up to MaxBatch + 1 records
InitStatus ==
  /\ now = 3
  /\ users = InitUsers
  /\ \E n \in 0..(MaxBatch + 1) :
       \E st \in [1..n -> BatchStatuses] :
          photos = [k \in 1..n |-> Photo(1, "corporate", st[k], "-")]
  /\ ledger = InitLedger
  /\ req = [r \in Slots |-> IdleSlot]
  /\ running = 0
  /\ faults = 0
  /\ tasks = <<>>
  /\ last = NoResponse
  /\ channel = [u \in 1..MaxUsers |-> "absent"]
  /\ WsInit
  /\ limiter = RateLimitMiddleware(100, 60)
  /\ served = <<>>

StatusSteps == \E r \in Slots : get_batch_status(r)

SpecStatus == InitStatus /\ [][StatusSteps]_vars

\* ---- properties -----------------------------------------------------------
Terminal == {"completed", "failed"}

PhotoIds == 1..Len(photos)

\* sum of the amounts of all rows of L
RECURSIVE SumAmounts(_)
SumAmounts(L) == IF L = <<>> THEN 0 ELSE Head(L).amount + SumAmounts(Tail(L))

\* sum of the balances of all accounts of U
RECURSIVE SumCredits(_)
SumCredits(U) == IF U = <<>> THEN 0 ELSE Head(U).credits + SumCredits(Tail(U))

\* C1: in every reachable state, the states between the separate commits of
\* a handler included, each account's balance equals the sum of the amounts
\* of that account's CreditTransactions.
C1_LedgerReconciled == \A u \in UserIds : users[u].credits = LedgerSum(u)

\* C2: an account's balance is never negative, whatever the interleaving of
\* the requests.
C2_BalanceNonNegative == \A u \in UserIds : users[u].credits >= 0

\* C3: a generation request whose generator call returned a non-empty output
\* ends with HTTP 200, its one record completed and carrying the generator's
\* first URL, exactly one transaction (-1, photo_generation) and a balance
\* change of exactly -1.
C3_GenerateSuccess ==
  [][\A r \in Slots :
       (/\ req[r].op = "generate"
        /\ req[r].url # ""
        /\ req'[r].pc = "idle") =>
          /\ last'.status = "200"
          /\ photos'[req[r].photo].status = "completed"
          /\ photos'[req[r].photo].processed_url = req[r].url
          /\ req[r].txs = <<Transaction(req[r].user, -1, "photo_generation")>>
          /\ req[r].delta = -1]_vars

\* C4: a generation request whose generator call raised or returned an empty
\* output goes to the failure path with its record failed, no transaction
\* and no balance change; the generator is called at most once per request;
\* no step of the request adds a second record; the request answers 500 and
\* its last step changes no table, so its record stays failed.
C4_GenerateFailure ==
  /\ [](\A r \in Slots : req[r].op = "generate" =>
          /\ req[r].calls <= 1
          /\ ((req[r].calls = 1 /\ req[r].url = "") =>
                /\ req[r].pc = "n365"
                /\ photos[req[r].photo].status = "failed"
                /\ photos[req[r].photo].processed_url = ""
                /\ req[r].txs = <<>>
                /\ req[r].delta = 0))
  /\ []((last.op = "generate" /\ last.calls = 1 /\ last.url = "") =>
          /\ last.status = "500"
          /\ photos[last.photo].status = "failed")
  /\ [][\A r \in Slots :
          /\ (req[r].op = "generate" /\ req[r].pc # "idle"
                /\ req'[r] # req[r]) => Len(photos') = Len(photos)
          /\ (req[r].pc = "n365" /\ req[r].calls = 1 /\ req[r].url = ""
                /\ req'[r] # req[r]) =>
                /\ last'.status = "500"
                /\ last'.calls = 1
                /\ UNCHANGED <<users, photos, ledger>>]_vars

C4_Witness ==
  /\ last.op = "generate"
  /\ last.calls = 1
  /\ last.url = ""
  /\ last.status = "500"
  /\ photos[last.photo].status = "failed"
  /\ users[last.user].credits = LedgerSum(last.user)

\* C5: the balance a generate handler checks is the account's balance; a
\* handler is accepted (or rejected for its style) only with balance >= 1;
\* with balance < 1 the answer is 400 Insufficient credits, and that step
\* changes no account, no record, no ledger row and starts no handler (so the
\* generator is never called).
C5_InsufficientRejected ==
  /\ [](\A r \in Slots : req[r].op = "generate" => req[r].seen >= 1)
  /\ []((last.op = "generate" /\ last.status = "400 Invalid style") =>
          last.seen >= 1)
  /\ [](last.status = "400 Insufficient credits" =>
          (last.seen < 1 /\ last.photo = 0))
  /\ [][/\ (last' # last /\ last'.status = "400 Insufficient credits") =>
             UNCHANGED <<users, photos, ledger, req, tasks>>
        /\ (last' # last /\ last'.op = "generate" /\ last'.photo = 0
              /\ last'.status # "500") =>
             last'.seen = users[last'.user].credits
        /\ \A r \in Slots :
             (req[r].pc = "idle" /\ req'[r].op = "generate") =>
                req'[r].seen = users[req'[r].user].credits]_vars

C5_Witness ==
  /\ last.op = "generate"
  /\ last.status = "400 Insufficient credits"
  /\ last.seen = 0
  /\ users[last.user].credits = 0

\* C6: every stored PhotoRecord has a style that is one of corporate,
\* creative, formal, casual (a request with any other style is rejected
\* before a record is created).
C6_StoredStylesValid == \A p \in PhotoIds : photos[p].style \in valid_styles

\* C7: every account has exactly one welcome_bonus transaction of +3: no
\* account exists without its welcome transaction.
C7_WelcomeBonus ==
  \A u \in UserIds :
    Cardinality({i \in 1..Len(ledger) :
                   /\ ledger[i].user_id = u
                   /\ ledger[i].transaction_type = "welcome_bonus"
                   /\ ledger[i].amount = 3}) = 1

\* an account with this email or this username is registered
Registered(email, username) ==
  \E i \in UserIds : users[i].email = email \/ users[i].username = username

\* C8: no two accounts share an email or a username, and a signup whose
\* email or username is registered answers 400 and changes neither the
\* accounts nor the ledger.
C8_UniqueIdentity ==
  /\ [](\A i, j \in UserIds : i # j =>
          /\ users[i].email # users[j].email
          /\ users[i].username # users[j].username)
  /\ [][(/\ \A r \in Slots : req[r].pc # "su_tx"
         /\ last' # last
         /\ last'.op = "signup"
         /\ Registered(last'.arg, last'.name)) =>
           /\ last'.status = "400"
           /\ UNCHANGED <<users, ledger, req>>]_vars

C8_Witness ==
  /\ last.op = "signup"
  /\ last.status = "400"
  /\ Len(users) = 2
  /\ \E i \in UserIds : users[i].username = last.name /\ users[i].email # last.arg

\* C9: a PhotoRecord's status moves only along queued -> processing ->
\* {completed, failed}; once completed or failed it never changes (the
\* committed status, and the status on the object a batch task holds).
C9_StatusMonotone ==
  [][\A p \in PhotoIds :
       /\ photos[p].status \in Terminal => photos'[p].status = photos[p].status
       /\ photos[p].mem \in Terminal => photos'[p].mem = photos[p].mem
       /\ photos'[p].status # photos[p].status =>
            <<photos[p].status, photos'[p].status>> \in
               {<<"queued", "processing">>, <<"processing", "completed">>,
                <<"processing", "failed">>}]_vars

\* C10: when a generate, purchase, admin add-credits or batch handler is
\* over, whether it returned or raised, the balance change it committed
\* equals the sum of the transactions it committed.
C10_PairedWrite ==
  [][\A r \in Slots :
       (/\ req[r].op \in {"generate", "purchase", "admin", "batch"}
        /\ req[r].pc # "idle"
        /\ req'[r].pc = "idle") =>
          req[r].delta + (SumCredits(users') - SumCredits(users)) =
             SumAmounts(req[r].txs) + (SumAmounts(ledger') - SumAmounts(ledger))]_vars

\* C11: in the single-item path the photo_generation transaction and its
\* balance decrement exist for a request if and only if the request's record
\* is completed: a request that created a record ends with the record
\* completed or failed, charged exactly when completed, and with balance and
\* ledger untouched when failed.
C11_ChargedIffCompleted ==
  [][\A r \in Slots :
       (/\ req[r].op = "generate"
        /\ req[r].photo # 0
        /\ req'[r].pc = "idle") =>
          /\ photos'[req[r].photo].status \in Terminal
          /\ (photos'[req[r].photo].status = "completed") <=>
                (/\ req[r].txs =
                      <<Transaction(req[r].user, -1, "photo_generation")>>
                 /\ req[r].delta = -1)
          /\ (photos'[req[r].photo].status = "failed") =>
                (req[r].txs = <<>> /\ req[r].delta = 0)]_vars

\* C12: nothing orders the generation requests of one account: a handler is
\* accepted on the balance alone, whatever other handlers of the account are
\* under way, and its decrement is applied without a second look at the
\* balance, so concurrent requests overdraw the account, each by at most one
\* credit.
C12_RaceOverdraws ==
  /\ [](\A u \in UserIds : users[u].credits >= 1 - NumReq)
  /\ [][\A r \in Slots :
          /\ (req[r].pc = "deduct" /\ req'[r] # req[r]) =>
                users'[req[r].user].credits = users[req[r].user].credits - 1
          /\ (req[r].pc = "idle" /\ req'[r].pc = "n288") =>
                users[req'[r].user].credits >= 1]_vars

\* two requests of one account were accepted at balance 1, both records are
\* completed, both were charged and the balance is -1
C12_Witness ==
  /\ \A r \in Slots : req[r].pc = "idle"
  /\ Len(photos) = Len(InitPhotos) + 2
  /\ \A p \in (Len(InitPhotos) + 1)..Len(photos) :
        photos[p].user_id = 1 /\ photos[p].status = "completed"
  /\ users[1].credits = -1
  /\ LedgerSum(1) = -1
  /\ last.op = "generate" /\ last.status = "200"

\* C13: a batch request of N items answers 400 and changes nothing when the
\* balance is below N; otherwise it is accepted (HTTP 200) and, when it
\* returns, has created N records in state queued, lowered the balance by
\* exactly N and appended exactly one ledger entry of amount -N.
C13_BatchUpFront ==
  [][/\ (last' # last /\ last'.op = "batch") =>
          IF last'.seen < last'.n
          THEN /\ last'.status = "400"
               /\ UNCHANGED <<users, photos, ledger, tasks, req>>
          ELSE last'.status = "200"
     /\ \A r \in Slots :
          (req[r].op = "batch" /\ req'[r].pc = "idle") =>
             /\ Len(req[r].batch) = req[r].n
             /\ \A k \in 1..Len(req[r].batch) :
                   photos'[req[r].batch[k]].status = "queued"
             /\ req[r].delta = -req[r].n
             /\ ledger' = Append(ledger,
                   Transaction(req[r].user, -req[r].n,
                               "batch_photo_generation"))]_vars

C15_BroadcastDelivers ==
  [][\A b \in Slots :
       (broadcasts[b].pc = "send" /\ broadcasts'[b].pc \in {"returned", "raised"}) =>
          LET B == broadcasts'[b]
              before == Range(active_connections[B.user].list)
              after == Range(active_connections'[B.user].list)
          IN /\ \A s \in Range(B.start) :
                   (s \in after /\ s \notin Range(B.to_remove)) => s \in B.got
             /\ \A s \in B.got : Owner(s) = B.user
             /\ \A s \in Range(B.to_remove) : s \notin after
             /\ \A s \in B.got : s \in before => s \in after]_vars

\* C16: no notify call of a generation request raises: a handler whose
\* generator call succeeded never goes to the except handler, and a handler
\* is in the except handler only because its generator call failed.
C16_NotifyNeverRaises ==
  /\ [](\A r \in Slots :
          req[r].pc = "n365" => (req[r].calls = 1 /\ req[r].url = ""))
  /\ [][\A r \in Slots :
          (req[r].op = "generate" /\ req[r].url # "") =>
             req'[r].pc # "n365"]_vars

\* the rows a handler or a background task is still working on
Held ==
  {req[r].photo : r \in Slots} \cup
  UNION {Range(tasks[t].photos) : t \in 1..Len(tasks)}

Generating(r) == req[r].op \in {"generate", "app_generate"}

\* C18: within one single-item request the steps come in the order credit
\* check, record created as processing, generator call, result persisted as
\* completed, ledger write: the generator is called only once the record
\* exists and before any charge, and the step that decrements the balance
\* and the step that writes the ledger entry find the record persisted as
\* completed.
C18_StrictOrder ==
  [][\A r \in Slots :
       Generating(r) =>
         LET after == IF req'[r].pc = "idle" THEN last' ELSE req'[r]
             exists == req[r].photo \in 1..Len(photos)
         IN /\ after.calls > req[r].calls =>
                 /\ exists
                 /\ photos[req[r].photo].status = "processing"
                 /\ req[r].delta = 0
            /\ (req'[r].pc # "idle" /\ req'[r].delta < req[r].delta) =>
                 exists /\ photos[req[r].photo].status = "completed"
            /\ (req'[r] # req[r] /\ Len(ledger') > Len(ledger)) =>
                 exists /\ photos[req[r].photo].status = "completed"]_vars

\* C19: a photo history response lists only records of the requesting
\* account, at most 20 of them, the most recently created ones, and any
\* record created after another one is listed before it.
C19_HistoryNewestFirst ==
  [][(last' # last /\ last'.op = "history") =>
       LET rows == last'.rows
           own == {i \in 1..Len(photos) : photos[i].user_id = last'.user}
       IN /\ \A a \in DOMAIN rows : rows[a] \in own
          /\ Len(rows) <= 20
          /\ \A a, b \in DOMAIN rows : a < b => rows[a] > rows[b]
          /\ \A i \in own \ Range(rows) :
               /\ Len(rows) = 20
               /\ \A a \in DOMAIN rows : rows[a] > i]_vars

\* C20: a credit purchase of plan p answers 200 only when the allotment of p
\* exceeds the balance; then the plan is p, the balance is exactly the
\* allotment and one purchase transaction of the difference is appended; a
\* request with an invalid plan or an allotment that does not exceed the
\* balance is answered 400 and leaves users and ledger as they were.
C20_PurchaseContract ==
  [][(last' # last /\ last'.op = "purchase") =>
       LET p == last'.arg
           u == last'.user
           before == last'.seen
           valid == p \in DOMAIN plans
       IN /\ last'.status = "200" =>
               /\ valid
               /\ plans[p] > before
               /\ users'[u].plan = p
               /\ users'[u].credits = plans[p]
               /\ ledger' = Append(ledger,
                               Transaction(u, plans[p] - before, "purchase"))
          /\ (~valid \/ plans[p] <= before) =>
               /\ last'.status = "400"
               /\ users' = users
               /\ ledger' = ledger]_vars

\* requests of client ip the application received in the period seconds
\* that end at time t
Recent(ip, t) ==
  {i \in 1..Len(served) : /\ served[i].ip = ip
                          /\ served[i].at > t - limiter.period
                          /\ served[i].at <= t}

\* C21: the application receives at most calls requests of one client IP in
\* any window of period seconds; a request arriving when its client already
\* has calls requests admitted in the last period seconds is answered 429,
\* is not handed to the application and is not recorded; any other request
\* is handed on, whatever the other clients have sent.
C21_RateLimit ==
  /\ [](\A ip \in ClientIps, t \in 0..MaxClock :
          Cardinality(Recent(ip, t)) <= limiter.calls)
  /\ [][(last' # last /\ last'.op = "dispatch") =>
          LET ip == last'.arg
          IN IF Cardinality(Recent(ip, now)) >= limiter.calls
             THEN /\ last'.status = "429"
                  /\ served' = served
                  /\ Len(limiter'.clients[ip]) <= Len(limiter.clients[ip])
                  /\ \A k \in DOMAIN limiter'.clients[ip] :
                       limiter'.clients[ip][k] > now - limiter.period
             ELSE /\ last'.status = "forwarded"
                  /\ served' = Append(served, [ip |-> ip, at |-> now])]_vars

\* a client at its limit is refused while the other client, served within the
\* same period, is below its own
C21_Witness ==
  /\ last.op = "dispatch" /\ last.status = "429"
  /\ Cardinality(Recent(last.arg, now)) = limiter.calls
  /\ \E ip \in ClientIps :
       /\ ip # last.arg
       /\ Cardinality(Recent(ip, now)) >= 1
       /\ Cardinality(Recent(ip, now)) < limiter.calls

\* C22: once the generator has delivered its output, a failure to build or
\* store the thumbnail or the stored copy does not fail the request: it ends
\* 200 with its record completed and one decrement made, and every completed
\* single-item record has a non-empty result reference and a non-empty
\* thumbnail reference.
C22_StorageFallback ==
  /\ [](\A i \in 1..Len(photos) :
          (photos[i].status = "completed" /\ photos[i].mem = "-") =>
             /\ photos[i].processed_url # ""
             /\ photos[i].thumbnail_url # "")
  /\ [][\A r \in Slots :
          (Generating(r) /\ req[r].url # "" /\ req'[r].pc = "idle") =>
             /\ last'.status = "200"
             /\ photos'[req[r].photo].status = "completed"
             /\ req[r].delta = -1]_vars

\* C23: the ledger is append-only and typed: every step leaves the rows it
\* found as they were, and every row has a kind in welcome_bonus, purchase,
\* photo_generation, admin_adjustment.
C23_LedgerAppendOnlyTyped ==
  /\ [](\A i \in 1..Len(ledger) :
          ledger[i].transaction_type \in
            {"welcome_bonus", "purchase", "photo_generation",
             "admin_adjustment"})
  /\ [][/\ Len(ledger') >= Len(ledger)
        /\ \A i \in 1..Len(ledger) : ledger'[i] = ledger[i]]_vars

\* C24: an add-credits request changes a balance only when its caller is an
\* admin, its target exists and its amount is positive; the target's balance
\* then grows by exactly the amount and one admin_adjustment transaction of
\* that amount is appended; a request refused with 403, 404 or 400 changes
\* no balance and no ledger row.
C24_AdminAddCredits ==
  [][/\ \A r \in Slots :
          /\ (req[r].pc = "idle" /\ req'[r].op = "admin") =>
                /\ is_admin(users[req'[r].user])
                /\ req'[r].target \in UserIds
                /\ req'[r].n > 0
                /\ users' = [users EXCEPT ![req'[r].target].credits =
                                             @ + req'[r].n]
                /\ ledger' = ledger
          /\ (req[r].op = "admin" /\ req'[r].pc = "idle") =>
                /\ users' = users
                /\ ledger' = Append(ledger,
                     Transaction(req[r].target, req[r].n, "admin_adjustment"))
     /\ (last' # last /\ last'.op = "admin" /\ req' = req) =>
          /\ users' = users
          /\ ledger' = ledger
          /\ (\/ ~is_admin(users[last'.user])
              \/ last'.target \notin UserIds
              \/ last'.n <= 0) => last'.status \in {"403", "404", "400"}]_vars

\* C25: a photo details request is answered with the record only when the
\* requesting account owns it; for an id that does not exist and for an id
\* of another account's record the answer is the same 404, made of the
\* request alone.
C25_DetailsOwnerOnly ==
  [][(last' # last /\ last'.op = "details") =>
       LET id == last'.photo
           u == last'.user
       IN IF id \in 1..Len(photos) /\ photos[id].user_id = u
          THEN /\ last'.status = "200"
               /\ last'.rows = <<id>>
               /\ last'.url = photos[id].processed_url
          ELSE last' = Response([Bare("details") EXCEPT
                                    !.user = u, !.photo = id,
                                    !.arg = "Photo not found"], "404")]_vars

\* an account asked for a record of another account and got 404
C25_Witness ==
  /\ last.op = "details"
  /\ last.status = "404"
  /\ last.photo \in 1..Len(photos)
  /\ photos[last.photo].user_id # last.user

\* C26: whenever no broadcast is under way, the registry maps no account to
\* an empty list, lists no socket that was disconnected or pruned, and lists
\* every open socket exactly once, under its own account.
C26_RegistryClean ==
  (\A b \in Slots : broadcasts[b].pc # "send") =>
     /\ \A u \in Accounts :
          active_connections[u].key => active_connections[u].list # <<>>
     /\ \A u \in Accounts, s \in Sockets :
          s \in Range(active_connections[u].list) =>
             /\ sockets[s] \in {"up", "down"}
             /\ \A b \in Slots : s \notin Range(broadcasts[b].to_remove)
     /\ \A s \in Sockets :
          sockets[s] = "up" =>
             /\ active_connections[Owner(s)].key
             /\ Cardinality({k \in DOMAIN active_connections[Owner(s)].list :
                   active_connections[Owner(s)].list[k] = s}) = 1
             /\ \A u \in Accounts \ {Owner(s)} :
                   s \notin Range(active_connections[u].list)

C29_OverallStatus ==
  [][(last' # last /\ last'.op = "batch_status" /\ photos # <<>>) =>
       LET rows == 1..Len(photos)
           count(s) == Cardinality({i \in rows : photos[i].status = s})
           total == Cardinality(rows)
       IN /\ last'.status = "200"
          /\ last'.arg = "completed" <=> count("completed") = total
          /\ last'.arg = "processing" <=>
                count("queued") + count("processing") > 0
          /\ last'.arg = "completed_with_errors" <=>
                /\ count("completed") + count("failed") = total
                /\ count("failed") > 0
                /\ count("failed") < total
          /\ last'.arg = "failed" <=> count("failed") = total
          /\ last'.rows = <<count("completed"), count("failed"),
                            count("processing")>>]_vars

====
